---- MODULE Spec2Model ----
(***************************************************************************)
(* Model of rushb.go: the Suite test-orchestration object.                 *)
(*                                                                         *)
(* The Suite's methods take caller-supplied callbacks (group bodies, test  *)
(* handlers, try/catch functions).  A callback is modelled as a sequence   *)
(* of nondeterministic choices made while it is the running function: it   *)
(* may call any Suite method, panic, or return.  Every method that runs a  *)
(* callback is split at the callback boundary into its entry (the code up  *)
(* to the call) and its continuation (the code after the call and its      *)
(* deferred function).  The Go call stack is the variable "stack".         *)
(*                                                                         *)
(* Go semantics used:                                                      *)
(*  - panic(v) unwinds the stack running deferred functions; recover() in  *)
(*    a deferred function stops the panic and yields v.                    *)
(*  - testing.T.Error logs and marks the test failed; the caller goes on.  *)
(*  - testing.T.Fatal logs and calls runtime.Goexit: the deferred          *)
(*    functions of every frame still run, recover() yields nil in them,    *)
(*    and the goroutine then ends; nothing can stop it.                    *)
(***************************************************************************)
EXTENDS Integers, Sequences, FiniteSets

\* ---- bounds of the model --------------------------------------------------
\* number of Suite method calls made in one run
MaxOps == 3
\* number of nested frames of Suite methods on the call stack
MaxDepth == 3

\* ---- input domains --------------------------------------------------------
\* messages given to Fail / Fatal and carried by returned errors
Msgs == {"boom"}
\* operands given to Assert, already formatted by %v
AssertVals == {"5", "6"}

\* ---- values that travel as panic values / returned errors -----------------
\* Every value has the same three fields so that values stay comparable:
\* type is the Go dynamic type, msg the text as a sequence of pieces.
Nil == [type |-> "nil", critical |-> FALSE, msg |-> <<>>]

suiteError(critical, msg) ==
  [type |-> "suiteError", critical |-> critical, msg |-> <<msg>>]

\* a non-nil error returned by a test handler
ErrorVal(m) == [type |-> "error", critical |-> FALSE, msg |-> <<m>>]

\* a value of Go type string
StringVal(s) == [type |-> "string", critical |-> FALSE, msg |-> s]

\* any other panic value (runtime error, panic(42), ...)
OtherVal == [type |-> "other", critical |-> FALSE, msg |-> <<"runtime error">>]

\* fmt.Sprintf(`Expect "%v", got "%v"`, expect, actual)
AssertMsg(actual, expect) ==
  <<"Expect \"", expect, "\", got \"", actual, "\"">>

\* fmt.Sprintln(v) as done by T.Error / T.Fatal on their argument: a struct
\* is printed as {field field}, an error or a string as its text.
Sprintln(v) ==
  IF v.type = "suiteError"
    THEN <<"{", IF v.critical THEN "true" ELSE "false", " ">> \o v.msg \o <<"}">>
    ELSE v.msg

VARIABLES
  indent,   \* Suite.indent
  passed,   \* Suite.passed
  failed,   \* Suite.failed
  skiped,   \* Suite.skiped
  out,      \* lines written by println, in order
  host,     \* calls made on Suite.T (the testing.T), in order
  stack,    \* frames of Suite methods whose callback is running
  mode,     \* what the goroutine is doing: "run" a callback, "ret" returning
            \* from one, "panic" unwinding, "goexit" unwinding after T.Fatal,
            \* "done" | "crash" | "exit" once it has ended
  err,      \* the value in flight: panic value or returned error
  result,   \* the value last returned by Try
  caught,   \* the values the catch callbacks were called with
  calls,    \* the Suite methods called so far; a call's index is its name
  last,     \* the last conclusion of a Check, Critical or Skip
  concl     \* every conclusion of a Check, Critical or Skip, in order

vars == <<indent, passed, failed, skiped, out, host, stack, mode, err,
          result, caught, calls, last, concl>>

Top == stack[Len(stack)]
Pop(s) == SubSeq(s, 1, Len(s) - 1)

\* the name given to the next call: names are unique per call
NextName == Len(calls) + 1

Frame(fn, name, catch) ==
  [fn |-> fn, name |-> name, catch |-> catch, indent0 |-> indent]

Init ==
  /\ indent = 0
  /\ passed = 0
  /\ failed = 0
  /\ skiped = 0
  /\ out = <<>>
  /\ host = <<>>
  /\ stack = <<>>
  /\ mode = "run"
  /\ err = Nil
  /\ result = "none"
  /\ caught = <<>>
  /\ calls = <<>>
  /\ last = [fn |-> "none", name |-> 0, cause |-> "none"]
  /\ concl = <<>>


\* println without the prefix: every line starts at column 0.
println_NoPrefix(o, ind, kind, text) ==
  Append(o, [kind |-> kind, text |-> text, indent |-> 0])

\* ---- printing -------------------------------------------------------------
\* Suite.println: the line is prefixed by ind spaces.  A line is kept as its
\* kind, the name or number it shows, and the width of its prefix.
println(o, ind, kind, text) ==
  Append(o, [kind |-> kind, text |-> text, indent |-> ind])

\* Suite.title / ok / fail / skip / info
title(o, ind, name) == println(o, ind, "title", name)
ok(o, ind, name) == println(o, ind, "ok", name)
fail(o, ind, name) == println(o, ind, "fail", name)
skip(o, ind, name) == println(o, ind, "skip", name)
info(o, ind, name) == println(o, ind, "info", name)

\* the deferred function of Start: the summary block
Summary(o, ind) ==
  LET o1 == println(o, ind, "finished", 0)
      o2 == println(o1, ind, "Passed", passed)
      o3 == println(o2, ind, "Failed", failed)
      o4 == println(o3, ind, "Skiped", skiped)
  IN println(o4, ind, "Total", passed + failed + skiped)

\* ---- the host facility, testing.T -----------------------------------------
\* A call on T is kept with the number of lines println had written when it
\* was made ("at"), which orders it against the output; o is the output
\* written so far at the call.
\* T.Error(v): log v, mark the test failed, return to the caller.
TError(h, v, o) ==
  Append(h, [fatal |-> FALSE, text |-> Sprintln(v), at |-> Len(o)])
\* T.Fatal(v): log v, mark the test failed, runtime.Goexit (the caller sets
\* mode to "goexit").
TFatal(h, v, o) ==
  Append(h, [fatal |-> TRUE, text |-> Sprintln(v), at |-> Len(o)])

\* recover() in a deferred function: the panic value while panicking, nil
\* on a normal return and during runtime.Goexit.
Recover == IF mode = "panic" THEN err ELSE Nil

\* ---- what a running callback may do ---------------------------------------
Running == mode = "run"
CanCall == Running /\ Len(calls) < MaxOps
CanNest(n) == CanCall /\ Len(stack) + n <= MaxDepth

\* Start(name, test), up to the call of test: the summary is deferred, then
\* Title(name, test) prints the heading and indents.
Start ==
  /\ CanNest(2)
  /\ calls' = Append(calls, "Start")
  /\ out' = println(title(println(out, indent, "blank", 0), indent, NextName),
                    indent, "blank", 0)
  /\ stack' = stack \o <<Frame("Start", NextName, FALSE),
                         Frame("Title", NextName, FALSE)>>
  /\ indent' = indent + 2
  /\ UNCHANGED <<passed, failed, skiped, host, mode, err, result, caught, last, concl>>

\* Title(name, test), up to the call of test.
Title ==
  /\ CanNest(1)
  /\ calls' = Append(calls, "Title")
  /\ out' = println(title(println(out, indent, "blank", 0), indent, NextName),
                    indent, "blank", 0)
  /\ stack' = Append(stack, Frame("Title", NextName, FALSE))
  /\ indent' = indent + 2
  /\ UNCHANGED <<passed, failed, skiped, host, mode, err, result, caught, last, concl>>

\* Check(name, test), up to the call of test(s).
Check ==
  /\ CanNest(1)
  /\ calls' = Append(calls, "Check")
  /\ stack' = Append(stack, Frame("Check", NextName, FALSE))
  /\ UNCHANGED <<indent, passed, failed, skiped, out, host, mode, err, result,
                 caught, last, concl>>

\* Critical(name, test), up to the call of test(s).
Critical ==
  /\ CanNest(1)
  /\ calls' = Append(calls, "Critical")
  /\ stack' = Append(stack, Frame("Critical", NextName, FALSE))
  /\ UNCHANGED <<indent, passed, failed, skiped, out, host, mode, err, result,
                 caught, last, concl>>

\* Skip that calls test(s) after printing, as Check does.
Skip_RunsTest ==
  /\ CanNest(1)
  /\ calls' = Append(calls, "Skip")
  /\ skiped' = skiped + 1
  /\ out' = skip(out, indent, NextName)
  /\ last' = [fn |-> "Skip", name |-> NextName, cause |-> "skip"]
  /\ concl' = Append(concl, last')
  /\ stack' = Append(stack, Frame("Try", NextName, FALSE))
  /\ UNCHANGED <<indent, passed, failed, host, mode, err, result, caught>>

\* Skip(name, test): test is not called.
Skip ==
  /\ CanCall
  /\ calls' = Append(calls, "Skip")
  /\ skiped' = skiped + 1
  /\ out' = skip(out, indent, NextName)
  /\ last' = [fn |-> "Skip", name |-> NextName, cause |-> "skip"]
  /\ concl' = Append(concl, last')
  /\ UNCHANGED <<indent, passed, failed, host, stack, mode, err, result, caught>>

\* Info(content)
Info ==
  /\ CanCall
  /\ calls' = Append(calls, "Info")
  /\ out' = info(out, indent, NextName)
  /\ UNCHANGED <<indent, passed, failed, skiped, host, stack, mode, err, result,
                 caught, last, concl>>

\* Try(try, catch), up to the call of try(); catch may be nil.
Try ==
  /\ CanNest(1)
  /\ \E catch \in BOOLEAN :
       stack' = Append(stack, Frame("Try", NextName, catch))
  /\ calls' = Append(calls, "Try")
  /\ UNCHANGED <<indent, passed, failed, skiped, out, host, mode, err, result,
                 caught, last, concl>>

\* Assert(actual, expect): panics with a string when actual != expect.
AssertPanic(actual, expect) ==
  IF actual # expect THEN StringVal(AssertMsg(actual, expect)) ELSE Nil

SuiteAssert ==
  /\ CanCall
  /\ calls' = Append(calls, "Assert")
  /\ \E actual \in AssertVals, expect \in AssertVals :
       LET p == AssertPanic(actual, expect)
       IN /\ err' = p
          /\ mode' = IF p # Nil THEN "panic" ELSE mode
  /\ UNCHANGED <<indent, passed, failed, skiped, out, host, stack, result,
                 caught, last, concl>>

\* Fail(content)
Fail ==
  /\ CanCall
  /\ calls' = Append(calls, "Fail")
  /\ \E content \in Msgs : err' = suiteError(FALSE, content)
  /\ mode' = "panic"
  /\ UNCHANGED <<indent, passed, failed, skiped, out, host, stack, result,
                 caught, last, concl>>

\* Fatal(content)
Fatal ==
  /\ CanCall
  /\ calls' = Append(calls, "Fatal")
  /\ \E content \in Msgs : err' = suiteError(TRUE, content)
  /\ mode' = "panic"
  /\ UNCHANGED <<indent, passed, failed, skiped, out, host, stack, result,
                 caught, last, concl>>

\* The callback panics by itself with a value that is not a suiteError.
Panic ==
  /\ Running
  /\ err' = OtherVal
  /\ mode' = "panic"
  /\ UNCHANGED <<indent, passed, failed, skiped, out, host, stack, result,
                 caught, calls, last, concl>>

\* The callback returns: a test handler returns nil or an error, a group
\* body, try or catch function returns nothing.
Return ==
  /\ Running
  /\ stack # <<>>
  /\ \E v \in {Nil} \cup {ErrorVal(m) : m \in Msgs} :
       /\ v # Nil => Top.fn \in {"Check", "Critical"}
       /\ err' = v
  /\ mode' = "ret"
  /\ UNCHANGED <<indent, passed, failed, skiped, out, host, stack, result,
                 caught, calls, last, concl>>


\* The test function itself returns: the run is over.
Finish ==
  /\ Running
  /\ stack = <<>>
  /\ mode' = "done"
  /\ UNCHANGED <<indent, passed, failed, skiped, out, host, stack, err, result,
                 caught, calls, last, concl>>

\* ---- the continuations of the methods that run a callback -----------------
Unwinding == mode \in {"panic", "goexit"}
Leaving == mode \in {"ret", "panic", "goexit"}

\* Title with the restore written as a last statement instead of deferred:
\* it is skipped when test() does not return.
TitleDeferred_Sequential == IF mode = "ret" THEN indent - 2 ELSE indent

\* Start with the summary written as a last statement instead of deferred.
StartDeferred_Sequential == IF mode = "ret" THEN Summary(out, indent) ELSE out

\* the deferred function of Title (lines 58-60)
TitleDeferred == indent - 2

\* the deferred function of Start (lines 43-49)
StartDeferred == Summary(out, indent)

\* Title after test(): the deferred function restores the indentation, on a
\* return as on an unwind.  A Title called by Start returns into Start,
\* which has nothing left to do but return.
TitleExit ==
  /\ stack # <<>>
  /\ Top.fn = "Title"
  /\ Leaving
  /\ indent' = TitleDeferred
  /\ stack' = Pop(stack)
  /\ mode' = IF mode = "ret" /\ (Len(stack) = 1 \/ stack[Len(stack) - 1].fn # "Start")
               THEN "run" ELSE mode
  /\ err' = IF mode = "ret" THEN Nil ELSE err
  /\ UNCHANGED <<passed, failed, skiped, out, host, result, caught, calls, last, concl>>

\* Start after Title(name, test): the deferred function prints the summary,
\* on a return as on an unwind.
StartExit ==
  /\ stack # <<>>
  /\ Top.fn = "Start"
  /\ Leaving
  /\ out' = StartDeferred
  /\ stack' = Pop(stack)
  /\ mode' = IF mode = "ret" THEN "run" ELSE mode
  /\ UNCHANGED <<indent, passed, failed, skiped, host, err, result, caught,
                 calls, last, concl>>

\* Check's body without the count of a passed test.
CheckBody_NoCount(e) ==
  LET bad == e # Nil
      f1 == IF bad THEN failed + 1 ELSE failed
      o1 == IF bad THEN fail(out, indent, Top.name) ELSE out
      h1 == IF bad THEN TError(host, e, o1) ELSE host
  IN [failed |-> f1, passed |-> passed, out |-> ok(o1, indent, Top.name),
      host |-> h1]

\* Check's body without the report of a returned error to T.
CheckBody_NoForward(e) ==
  LET bad == e # Nil
      f1 == IF bad THEN failed + 1 ELSE failed
      o1 == IF bad THEN fail(out, indent, Top.name) ELSE out
  IN [failed |-> f1, passed |-> passed + 1, out |-> ok(o1, indent, Top.name),
      host |-> host]

\* The body of Check once test(s) has returned e (lines 95-103): what it
\* leaves in the counters, the output and the host.
CheckBody(e) ==
  LET bad == e # Nil
      f1 == IF bad THEN failed + 1 ELSE failed
      o1 == IF bad THEN fail(out, indent, Top.name) ELSE out
      h1 == IF bad THEN TError(host, e, o1) ELSE host
  IN [failed |-> f1, passed |-> passed + 1, out |-> ok(o1, indent, Top.name),
      host |-> h1]

\* Check after test(s) has returned err; the deferred function then finds
\* nothing to recover.
CheckReturn ==
  /\ stack # <<>>
  /\ Top.fn = "Check"
  /\ mode = "ret"
  /\ LET r == CheckBody(err)
     IN /\ failed' = r.failed
        /\ passed' = r.passed
        /\ out' = r.out
        /\ host' = r.host
  /\ last' = [fn |-> "Check", name |-> Top.name,
              cause |-> IF err # Nil THEN "error" ELSE "nil"]
  /\ concl' = Append(concl, last')
  /\ stack' = Pop(stack)
  /\ mode' = "run"
  /\ err' = Nil
  /\ UNCHANGED <<indent, skiped, result, caught, calls>>

\* how a recovered value is named in "last"
Cause(e) ==
  IF e.type = "suiteError" THEN (IF e.critical THEN "Fatal" ELSE "Fail")
  ELSE e.type

\* Check's deferred function without the severity test: every suiteError
\* goes to T.Fatal.
CheckRecover_AlwaysFatal(e) ==
  IF e # Nil
    THEN [failed |-> failed + 1, out |-> fail(out, indent, Top.name),
          mode |-> IF e.type = "suiteError" THEN "goexit" ELSE "run",
          host |-> IF e.type = "suiteError"
                     THEN TFatal(host, StringVal(e.msg),
                                 fail(out, indent, Top.name))
                     ELSE TError(host, e, fail(out, indent, Top.name))]
    ELSE [failed |-> failed, out |-> out, mode |-> mode, host |-> host]

\* Check's deferred function without the severity test: every suiteError
\* goes to T.Error.
CheckRecover_NeverFatal(e) ==
  IF e # Nil
    THEN [failed |-> failed + 1, out |-> fail(out, indent, Top.name),
          mode |-> "run",
          host |-> IF e.type = "suiteError"
                     THEN TError(host, StringVal(e.msg),
                                 fail(out, indent, Top.name))
                     ELSE TError(host, e, fail(out, indent, Top.name))]
    ELSE [failed |-> failed, out |-> out, mode |-> mode, host |-> host]

\* Check's deferred function without the test of recover()'s value: it
\* also records a failure when the stack unwinds for a Goexit.
CheckRecover_NoNilTest(e) ==
  LET f1 == failed + 1
      o1 == fail(out, indent, Top.name)
      m1 == IF mode = "goexit" THEN "goexit" ELSE "run"
  IN IF e.type = "suiteError"
       THEN IF e.critical
              THEN [failed |-> f1, out |-> o1, mode |-> "goexit",
                    host |-> TFatal(host, StringVal(e.msg), o1)]
              ELSE [failed |-> f1, out |-> o1, mode |-> m1,
                    host |-> TError(host, StringVal(e.msg), o1)]
       ELSE [failed |-> f1, out |-> o1, mode |-> m1,
             host |-> TError(host, e, o1)]

\* Check's deferred function with the report to T made before the Fail line
\* is printed: after T.Fatal the line is never printed.
CheckRecover_ForwardFirst(e) ==
  IF e # Nil
    THEN LET f1 == failed + 1
             o1 == fail(out, indent, Top.name)
         IN IF e.type = "suiteError"
              THEN IF e.critical
                     THEN [failed |-> f1, out |-> out, mode |-> "goexit",
                           host |-> TFatal(host, StringVal(e.msg), out)]
                     ELSE [failed |-> f1, out |-> o1, mode |-> "run",
                           host |-> TError(host, StringVal(e.msg), out)]
              ELSE [failed |-> f1, out |-> o1, mode |-> "run",
                    host |-> TError(host, e, out)]
    ELSE [failed |-> failed, out |-> out, mode |-> mode, host |-> host]

\* The deferred function of Check, given e == recover() (lines 77-92):
\* what it leaves in the counter, the output and the host, and whether the
\* goroutine goes on ("run"), exits ("goexit") or keeps unwinding.
CheckRecover(e) ==
  IF e # Nil
    THEN LET f1 == failed + 1
             o1 == fail(out, indent, Top.name)
         IN IF e.type = "suiteError"
              THEN IF e.critical
                     THEN [failed |-> f1, out |-> o1, mode |-> "goexit",
                           host |-> TFatal(host, StringVal(e.msg), o1)]
                     ELSE [failed |-> f1, out |-> o1, mode |-> "run",
                           host |-> TError(host, StringVal(e.msg), o1)]
              ELSE [failed |-> f1, out |-> o1, mode |-> "run",
                    host |-> TError(host, e, o1)]
    ELSE [failed |-> failed, out |-> out, mode |-> mode, host |-> host]

\* The deferred function of Check while the stack unwinds.
CheckDeferred ==
  /\ stack # <<>>
  /\ Top.fn = "Check"
  /\ Unwinding
  /\ LET r == CheckRecover(Recover)
     IN /\ failed' = r.failed
        /\ out' = r.out
        /\ host' = r.host
        /\ mode' = r.mode
  /\ last' = IF Recover # Nil
               THEN [fn |-> "Check", name |-> Top.name, cause |-> Cause(Recover)]
               ELSE last
  /\ concl' = IF Recover # Nil THEN Append(concl, last') ELSE concl
  /\ err' = Nil
  /\ stack' = Pop(stack)
  /\ UNCHANGED <<indent, passed, skiped, result, caught, calls>>

\* Critical's fail closure with Check's severity test: a Fail signal is
\* recorded with T.Error and the run goes on.
CriticalFail_Recoverable(e) ==
  IF e.type = "suiteError" /\ ~e.critical
    THEN [failed |-> failed + 1, out |-> fail(out, indent, Top.name),
          host |-> TError(host, e, fail(out, indent, Top.name)),
          mode |-> "run"]
    ELSE [failed |-> failed + 1, out |-> fail(out, indent, Top.name),
          host |-> TFatal(host, e, fail(out, indent, Top.name)),
          mode |-> "goexit"]

\* The fail closure of Critical (lines 109-113): T.Fatal starts the Goexit.
CriticalFail(e) ==
  [failed |-> failed + 1, out |-> fail(out, indent, Top.name),
   host |-> TFatal(host, e, fail(out, indent, Top.name)), mode |-> "goexit"]

\* Critical after test(s) has returned err (lines 121-126): a non-nil err
\* goes to the fail closure; the deferred function then finds nothing to
\* recover.
CriticalReturn ==
  /\ stack # <<>>
  /\ Top.fn = "Critical"
  /\ mode = "ret"
  /\ IF err # Nil
       THEN LET r == CriticalFail(err)
            IN /\ failed' = r.failed
               /\ out' = r.out
               /\ host' = r.host
               /\ mode' = r.mode
               /\ UNCHANGED passed
       ELSE /\ passed' = passed + 1
            /\ out' = ok(out, indent, Top.name)
            /\ mode' = "run"
            /\ UNCHANGED <<failed, host>>
  /\ last' = [fn |-> "Critical", name |-> Top.name,
              cause |-> IF err # Nil THEN "error" ELSE "nil"]
  /\ concl' = Append(concl, last')
  /\ stack' = Pop(stack)
  /\ err' = Nil
  /\ UNCHANGED <<indent, skiped, result, caught, calls>>

\* The deferred function of Critical while the stack unwinds (lines
\* 115-119): a recovered value goes to the fail closure.
CriticalDeferred ==
  /\ stack # <<>>
  /\ Top.fn = "Critical"
  /\ Unwinding
  /\ IF Recover # Nil
       THEN LET r == CriticalFail(Recover)
            IN /\ failed' = r.failed
               /\ out' = r.out
               /\ host' = r.host
               /\ mode' = r.mode
               /\ last' = [fn |-> "Critical", name |-> Top.name,
                           cause |-> Cause(Recover)]
               /\ concl' = Append(concl, last')
       ELSE UNCHANGED <<failed, out, host, mode, last, concl>>
  /\ err' = Nil
  /\ stack' = Pop(stack)
  /\ UNCHANGED <<indent, passed, skiped, result, caught, calls>>

\* Try after try() has returned: the deferred function sets result to true.
TryReturn ==
  /\ stack # <<>>
  /\ Top.fn = "Try"
  /\ mode = "ret"
  /\ result' = "true"
  /\ stack' = Pop(stack)
  /\ mode' = "run"
  /\ err' = Nil
  /\ UNCHANGED <<indent, passed, failed, skiped, out, host, caught, calls, last, concl>>

\* Try's deferred function with the two values of result swapped.
TryDeferred_SwappedResult ==
  /\ stack # <<>>
  /\ Top.fn = "Try"
  /\ Unwinding
  /\ LET e == Recover
     IN IF e # Nil
          THEN /\ err' = Nil
               /\ mode' = "run"
               /\ IF Top.catch
                    THEN /\ caught' = Append(caught, e)
                         /\ stack' = Append(Pop(stack),
                                            [Top EXCEPT !.fn = "catch"])
                         /\ UNCHANGED result
                    ELSE /\ result' = "true"
                         /\ stack' = Pop(stack)
                         /\ UNCHANGED caught
          ELSE /\ stack' = Pop(stack)
               /\ UNCHANGED <<err, mode, caught, result>>
  /\ UNCHANGED <<indent, passed, failed, skiped, out, host, calls, last, concl>>

\* Try's deferred function counting a recovered panic as a failed test, as
\* the deferred function of Check does.
TryDeferred_CountsFailure ==
  /\ stack # <<>>
  /\ Top.fn = "Try"
  /\ Unwinding
  /\ LET e == Recover
     IN IF e # Nil
          THEN /\ err' = Nil
               /\ mode' = "run"
               /\ failed' = failed + 1
               /\ out' = fail(out, indent, Top.name)
               /\ IF Top.catch
                    THEN /\ caught' = Append(caught, e)
                         /\ stack' = Append(Pop(stack),
                                            [Top EXCEPT !.fn = "catch"])
                         /\ UNCHANGED result
                    ELSE /\ result' = "false"
                         /\ stack' = Pop(stack)
                         /\ UNCHANGED caught
          ELSE /\ stack' = Pop(stack)
               /\ UNCHANGED <<err, mode, caught, result, failed, out>>
  /\ UNCHANGED <<indent, passed, skiped, host, calls, last, concl>>

\* The deferred function of Try while the stack unwinds (lines 139-148).
\* A recovered panic value goes to catch, when there is one: catch becomes
\* the running callback, and Try returns false once catch has returned.
\* During a Goexit recover() yields nil and the goroutine goes on exiting.
TryDeferred ==
  /\ stack # <<>>
  /\ Top.fn = "Try"
  /\ Unwinding
  /\ LET e == Recover
     IN IF e # Nil
          THEN /\ err' = Nil
               /\ mode' = "run"
               /\ IF Top.catch
                    THEN /\ caught' = Append(caught, e)
                         /\ stack' = Append(Pop(stack),
                                            [Top EXCEPT !.fn = "catch"])
                         /\ UNCHANGED result
                    ELSE /\ result' = "false"
                         /\ stack' = Pop(stack)
                         /\ UNCHANGED caught
          ELSE /\ stack' = Pop(stack)
               /\ UNCHANGED <<err, mode, caught, result>>
  /\ UNCHANGED <<indent, passed, failed, skiped, out, host, calls, last, concl>>

\* catch(err) has returned inside the deferred function of Try: result is
\* set to false and Try returns it (lines 142-144).
CatchReturn ==
  /\ stack # <<>>
  /\ Top.fn = "catch"
  /\ mode = "ret"
  /\ result' = "false"
  /\ stack' = Pop(stack)
  /\ mode' = "run"
  /\ err' = Nil
  /\ UNCHANGED <<indent, passed, failed, skiped, out, host, caught, calls, last, concl>>

\* catch(err) panics or exits: the deferred function of Try is left at
\* line 142 and the unwinding goes on in the caller of Try.
CatchUnwind ==
  /\ stack # <<>>
  /\ Top.fn = "catch"
  /\ Unwinding
  /\ stack' = Pop(stack)
  /\ UNCHANGED <<indent, passed, failed, skiped, out, host, mode, err, result,
                 caught, calls, last, concl>>

\* A panic that no frame recovered ends the process.
Crash ==
  /\ stack = <<>>
  /\ mode = "panic"
  /\ mode' = "crash"
  /\ UNCHANGED <<indent, passed, failed, skiped, out, host, stack, err, result,
                 caught, calls, last, concl>>

\* runtime.Goexit has run every deferred function: the goroutine ends.
Exit ==
  /\ stack = <<>>
  /\ mode = "goexit"
  /\ mode' = "exit"
  /\ UNCHANGED <<indent, passed, failed, skiped, out, host, stack, err, result,
                 caught, calls, last, concl>>

Next ==
  \/ Start \/ Title \/ Check \/ Critical \/ Skip \/ Info \/ Try
  \/ SuiteAssert \/ Fail \/ Fatal \/ Panic \/ Return \/ Finish
  \/ TitleExit \/ StartExit
  \/ CheckReturn \/ CheckDeferred
  \/ CriticalReturn \/ CriticalDeferred
  \/ TryReturn \/ TryDeferred \/ CatchReturn \/ CatchUnwind
  \/ Crash \/ Exit

Spec == Init /\ [][Next]_vars


\* ========================================================================
\* Properties
\* ========================================================================

\* the number of lines of a kind printed for a name
NumLines(o, kind, name) ==
  Cardinality({i \in 1..Len(o) : o[i].kind = kind /\ o[i].text = name})

\* the number of lines of a kind
NumKind(o, kind) == Cardinality({i \in 1..Len(o) : o[i].kind = kind})

\* the number of calls of a method
NumCalls(c, fn) == Cardinality({i \in 1..Len(c) : c[i] = fn})

\* the number of frames of a method on the stack
NumFrames(st, fn) == Cardinality({i \in 1..Len(st) : st[i].fn = fn})

\* the step is the conclusion of the method whose frame is on top
Concludes(fn) == stack # <<>> /\ Top.fn = fn /\ stack' = Pop(stack)

\* what the host is expected to have received
NonFatal(text) == [fatal |-> FALSE, text |-> text]
FatalRec(text) == [fatal |-> TRUE, text |-> text]

\* a call on T as the host sees it: its severity and its text
Shown(h) == [fatal |-> h.fatal, text |-> h.text]

\* one more call went to the host, and it is r
Forwards(r) ==
  /\ Len(host') = Len(host) + 1
  /\ SubSeq(host', 1, Len(host)) = host
  /\ Shown(host'[Len(host')]) = r

\* one more record went to the host, and it is a fatal one / a non-fatal one
ForwardsFatal ==
  /\ Len(host') = Len(host) + 1
  /\ SubSeq(host', 1, Len(host)) = host
  /\ host'[Len(host')].fatal

ForwardsNonFatal ==
  /\ Len(host') = Len(host) + 1
  /\ SubSeq(host', 1, Len(host)) = host
  /\ ~host'[Len(host')].fatal

FatalForwarded == \E i \in 1..Len(host) : host[i].fatal

Ended == mode \in {"done", "crash", "exit"}

\* once the goroutine is exiting, it never runs a callback again
RunTerminates ==
  mode = "goexit" => (mode' \in {"goexit", "exit"} /\ calls' = calls)

IsFailSignal(e) == e.type = "suiteError" /\ ~e.critical
IsFatalSignal(e) == e.type = "suiteError" /\ e.critical

\* the panic values Assert can raise
AssertMismatches ==
  {AssertPanic(a, e) : a \in AssertVals, e \in AssertVals} \ {Nil}

\* ---- C1 -------------------------------------------------------------------
\* C1: a Check whose test returns a failure description (without aborting)
\* adds exactly 1 to failed, leaves passed alone, prints exactly one Fail
\* line and no Ok line for its name, forwards the failure to the host as
\* non-fatal, and control goes back to the enclosing body; Check adds to
\* passed and prints Ok only when test returned no failure.
C1_CheckReturnedFailure ==
  [][ /\ (stack # <<>> /\ Top.fn = "Check" /\ mode = "ret" /\ err # Nil) =>
           /\ failed' = failed + 1
           /\ passed' = passed
           /\ NumLines(out', "fail", Top.name) = 1
           /\ NumLines(out', "ok", Top.name) = 0
           /\ Forwards(NonFatal(err.msg))
           /\ mode' = "run"
           /\ stack' = Pop(stack)
      /\ (Concludes("Check")
          /\ (passed' # passed \/ NumLines(out', "ok", Top.name) # 0)) =>
           (mode = "ret" /\ err = Nil)
    ]_vars

\* ---- C2 -------------------------------------------------------------------
\* C2: a Check whose test panics with a value that is neither the Fail nor
\* the Fatal signal forwards the failure to the host as fatal, never as
\* non-fatal, and the run terminates.
C2_CheckUnknownPanicIsFatal ==
  [][ /\ (stack # <<>> /\ Top.fn = "Check" /\ mode = "panic"
          /\ err.type # "suiteError") =>
           /\ Forwards(FatalRec(Sprintln(err)))
           /\ mode' = "goexit"
      /\ RunTerminates
    ]_vars

\* ---- C3 -------------------------------------------------------------------
\* C3: Assert does not abort on equal operands; on different ones it aborts
\* with the message Expect "<expected>", got "<actual>", and that abort is
\* of Fatal severity: inside a Check body, as inside a Critical body, it is
\* forwarded to the host as fatal and the run terminates.
C3_AssertIsFatal ==
  [][ /\ \A a \in AssertVals, e \in AssertVals :
           /\ a = e => AssertPanic(a, e) = Nil
           /\ a # e => (/\ AssertPanic(a, e) # Nil
                        /\ AssertPanic(a, e).msg =
                             <<"Expect \"", e, "\", got \"", a, "\"">>)
      /\ (stack # <<>> /\ Top.fn \in {"Check", "Critical"} /\ mode = "panic"
          /\ err \in AssertMismatches) =>
           /\ Forwards(FatalRec(err.msg))
           /\ mode' = "goexit"
      /\ RunTerminates
    ]_vars

\* ---- C4 -------------------------------------------------------------------
\* C4: Critical has no recoverable path.  A Critical whose test returns a
\* failure, raises the Fail signal, the Fatal signal or any other panic adds
\* exactly 1 to failed, leaves passed alone, prints a Fail line and no Ok
\* line, forwards one fatal failure to the host, and the run terminates: no
\* method is called afterwards.  Only a return without failure adds 1 to
\* passed and prints the Ok line.
C4_CriticalNoRecoverablePath ==
  [][ /\ (stack # <<>> /\ Top.fn = "Critical"
          /\ (mode = "panic" \/ (mode = "ret" /\ err # Nil))) =>
           /\ failed' = failed + 1
           /\ passed' = passed
           /\ skiped' = skiped
           /\ out' = Append(out, [kind |-> "fail", text |-> Top.name,
                                  indent |-> indent])
           /\ ForwardsFatal
           /\ mode' = "goexit"
           /\ stack' = Pop(stack)
      /\ (stack # <<>> /\ Top.fn = "Critical" /\ mode = "ret" /\ err = Nil) =>
           /\ passed' = passed + 1
           /\ failed' = failed
           /\ out' = Append(out, [kind |-> "ok", text |-> Top.name,
                                  indent |-> indent])
           /\ host' = host
           /\ mode' = "run"
      /\ (Concludes("Critical")
          /\ (passed' # passed \/ NumLines(out', "ok", Top.name) # 0)) =>
           (mode = "ret" /\ err = Nil)
      /\ RunTerminates
    ]_vars

\* a Critical got the Fail signal, and the run ended there
C4_Witness ==
  /\ last.fn = "Critical"
  /\ last.cause = "Fail"
  /\ mode = "exit"
  /\ failed = 1
  /\ passed = 0
  /\ FatalForwarded

\* ---- C5 -------------------------------------------------------------------
\* C5: a Check whose test raises the Fail signal adds exactly 1 to failed,
\* leaves passed and skiped alone, forwards the failure to the host as
\* non-fatal, and control goes back to the enclosing body, which runs on.
C5_CheckFailIsRecoverable ==
  [][ (stack # <<>> /\ Top.fn = "Check" /\ mode = "panic" /\ IsFailSignal(err)) =>
        /\ failed' = failed + 1
        /\ passed' = passed
        /\ skiped' = skiped
        /\ ForwardsNonFatal
        /\ mode' = "run"
        /\ stack' = Pop(stack)
    ]_vars

\* a Check got the Fail signal and the operation after it has run
C5_Witness ==
  /\ calls = <<"Check", "Fail", "Info">>
  /\ last = [fn |-> "Check", name |-> 1, cause |-> "Fail"]
  /\ failed = 1
  /\ out[Len(out)].kind = "info"
  /\ ~FatalForwarded

\* ---- C6 -------------------------------------------------------------------
\* C6: a Check whose test raises the Fatal signal adds exactly 1 to failed,
\* leaves passed alone, forwards the failure to the host as fatal, and the
\* run terminates; under Check as under Critical the Fatal signal is never
\* recorded as a non-fatal failure.
C6_FatalAlwaysEscalates ==
  [][ /\ (stack # <<>> /\ Top.fn = "Check" /\ mode = "panic" /\ IsFatalSignal(err)) =>
           /\ failed' = failed + 1
           /\ passed' = passed
           /\ ForwardsFatal
           /\ mode' = "goexit"
      /\ (stack # <<>> /\ Top.fn \in {"Check", "Critical"} /\ mode = "panic"
          /\ IsFatalSignal(err)) =>
           (ForwardsFatal /\ mode' = "goexit")
      /\ RunTerminates
    ]_vars

\* a Check got the Fatal signal, and the run ended there
C6_Witness ==
  /\ last.fn = "Check"
  /\ last.cause = "Fatal"
  /\ mode = "exit"
  /\ failed = 1
  /\ passed = 0
  /\ Len(host) = 1
  /\ Shown(host[1]) = FatalRec(<<"boom">>)

\* ---- C7 -------------------------------------------------------------------
\* C7: when a test aborts with Fail(m) or Fatal(m), what the host receives
\* is exactly the message m, under Check and under Critical.
C7_ForwardsTheMessage ==
  [][ (stack # <<>> /\ Top.fn \in {"Check", "Critical"} /\ mode = "panic"
       /\ err.type = "suiteError") =>
        /\ Len(host') = Len(host) + 1
        /\ host'[Len(host')].text = err.msg
    ]_vars

\* ---- C8 -------------------------------------------------------------------
\* C8: once a fatal failure has been forwarded to the host, no method is
\* called, no counter changes, nothing more goes to the host and no title,
\* Ok, Fail, Skip or info line is printed; the only changes left are the
\* indentation restore of each enclosing Title and the summary of each
\* enclosing Start, and all of them have happened when the goroutine ends.
C8_FatalCancellation ==
  [][ /\ FatalForwarded =>
           /\ mode \in {"goexit", "exit"}
           /\ mode' \in {"goexit", "exit"}
           /\ calls' = calls
           /\ passed' = passed /\ failed' = failed /\ skiped' = skiped
           /\ host' = host
           /\ out' # out =>
                (stack # <<>> /\ Top.fn = "Start" /\ out' = Summary(out, indent))
           /\ indent' # indent =>
                (stack # <<>> /\ Top.fn = "Title" /\ indent' = indent - 2)
      /\ mode' = "exit" =>
           /\ stack' = <<>>
           /\ indent' = 0
           /\ NumKind(out', "finished") = NumCalls(calls', "Start")
    ]_vars

\* a fatal failure below a Start and a Check: the run has ended with the
\* summary printed and the indentation back at 0
C8_Witness ==
  /\ mode = "exit"
  /\ calls = <<"Start", "Check", "Fatal">>
  /\ FatalForwarded
  /\ NumKind(out, "finished") = 1
  /\ indent = 0

\* ---- C9 -------------------------------------------------------------------
\* the summary block for given counters
SummaryBlock(ind, p, f, s) ==
  << [kind |-> "finished", text |-> 0, indent |-> ind],
     [kind |-> "Passed", text |-> p, indent |-> ind],
     [kind |-> "Failed", text |-> f, indent |-> ind],
     [kind |-> "Skiped", text |-> s, indent |-> ind],
     [kind |-> "Total", text |-> p + f + s, indent |-> ind] >>

\* C9: every Start prints its summary exactly once, when it is left, after
\* everything its body printed, however the body ended (return, Goexit
\* after a fatal failure, panic); the block shows the counters as they are
\* then, and Total is their sum.
C9_SummaryOnce ==
  [][ /\ (stack # <<>> /\ Top.fn = "Start" /\ Len(stack') < Len(stack)) =>
           out' = out \o SummaryBlock(indent', passed', failed', skiped')
      /\ NumKind(out', "finished") + NumFrames(stack', "Start")
           = NumCalls(calls', "Start")
      /\ mode' \in {"done", "crash", "exit"} => stack' = <<>>
    ]_vars

\* a group body panicked below Start: the process ends with the summary
C9_Witness ==
  /\ mode = "crash"
  /\ calls = <<"Start">>
  /\ NumKind(out, "finished") = 1
  /\ out[Len(out)] = [kind |-> "Total", text |-> 0, indent |-> 0]

\* ---- C10 ------------------------------------------------------------------
\* C10: when a Title or Start call is left, by return or by unwinding, the
\* indentation is what it was just before the call; every call is left by
\* the time the goroutine ends.
C10_IndentBalanced ==
  [][ /\ (stack # <<>> /\ Top.fn \in {"Title", "Start"}
          /\ Len(stack') < Len(stack)) =>
           indent' = Top.indent0
      /\ mode' \in {"done", "crash", "exit"} => (stack' = <<>> /\ indent' = 0)
    ]_vars

\* a Title left by a panic that Try then caught: the caller of Try runs on
\* at the indentation the title was printed at
C10_Witness ==
  /\ calls = <<"Try", "Title", "Fail">>
  /\ result = "false"
  /\ mode = "run"
  /\ stack = <<>>
  /\ indent = out[2].indent
  /\ out[2].kind = "title"


\* ---- C11 ------------------------------------------------------------------
\* C11: a Skip call does not run its test (no callback becomes the running
\* function), adds exactly 1 to skiped, leaves passed, failed and the
\* indentation alone, prints exactly one Skip line for its name and sends
\* nothing to the host.
C11_SkipIsInert ==
  [][ calls' = Append(calls, "Skip") =>
        /\ skiped' = skiped + 1
        /\ passed' = passed
        /\ failed' = failed
        /\ indent' = indent
        /\ out' = Append(out, [kind |-> "skip", text |-> NextName,
                               indent |-> indent])
        /\ NumLines(out', "skip", NextName) = 1
        /\ host' = host
        /\ stack' = stack
        /\ mode' = mode
        /\ err' = err
        /\ caught' = caught
        /\ result' = result
    ]_vars

\* a Skip inside a group has been made and the run went on to its end
C11_Witness ==
  /\ calls = <<"Title", "Skip">>
  /\ mode = "done"
  /\ skiped = 1
  /\ passed = 0
  /\ failed = 0
  /\ out[Len(out)] = [kind |-> "skip", text |-> 2, indent |-> 2]
  /\ host = <<>>

\* ---- C12 ------------------------------------------------------------------
\* C12: a Check or Critical that fails (returned failure, Fail signal, Fatal
\* signal, other panic) prints exactly one Fail line for its name, and the
\* line is already written when the failure goes to the host: the line each
\* call on T finds last in the output is the Fail line of the failing test.
C12_FailLineBeforeForward ==
  [][ /\ (stack # <<>> /\ Top.fn \in {"Check", "Critical"}
          /\ (mode = "panic" \/ (mode = "ret" /\ err # Nil))) =>
           /\ NumLines(out', "fail", Top.name) = 1
           /\ Len(host') = Len(host) + 1
           /\ host'[Len(host')].at \in 1..Len(out')
           /\ out'[host'[Len(host')].at] =
                [kind |-> "fail", text |-> Top.name, indent |-> indent]
      /\ \A k \in 1..Len(host') :
           /\ host'[k].at \in 1..Len(out')
           /\ out'[host'[k].at].kind = "fail"
    ]_vars

\* a Critical whose test returned an error: the run has ended, the Fail line
\* is in the output and was there when T.Fatal was called
C12_Witness ==
  /\ mode = "exit"
  /\ last.fn = "Critical"
  /\ last.cause = "error"
  /\ Len(host) = 1
  /\ host[1].fatal
  /\ host[1].at = Len(out)
  /\ out[Len(out)].kind = "fail"


\* ---- C13 ------------------------------------------------------------------
\* the step returns from Try to its caller
TryReturns ==
  /\ stack # <<>>
  /\ Top.fn \in {"Try", "catch"}
  /\ stack' = Pop(stack)
  /\ mode' = "run"

\* what Try does when try() returns and when try() panics
TryCatches ==
  /\ (stack # <<>> /\ Top.fn = "Try" /\ mode = "ret") =>
       /\ result' = "true"
       /\ mode' = "run"
       /\ stack' = Pop(stack)
       /\ caught' = caught
  /\ (stack # <<>> /\ Top.fn = "Try" /\ mode = "panic") =>
       /\ mode' = "run"
       /\ err' = Nil
       /\ IF Top.catch
            THEN /\ caught' = Append(caught, err)
                 /\ stack' = Append(Pop(stack), [Top EXCEPT !.fn = "catch"])
                 /\ result' = result
            ELSE /\ caught' = caught
                 /\ stack' = Pop(stack)
                 /\ result' = "false"
  /\ caught' # caught =>
       (stack # <<>> /\ Top.fn = "Try" /\ mode = "panic" /\ Top.catch)
  /\ TryReturns =>
       (result' = "true" <=> (Top.fn = "Try" /\ mode = "ret"))
  /\ TryReturns =>
       (result' = "false" <=> (mode = "panic" \/ Top.fn = "catch"))

\* C13 as claimed: Try returns true iff try() raised no abort; catch is
\* called, once and with the caught value, iff Try returns false and catch
\* is not nil, so a Try that has called catch returns false; the abort of
\* try() never reaches the caller of Try.
C13_TryAsClaimed ==
  [][ /\ TryCatches
      /\ (stack # <<>> /\ Top.fn = "catch" /\ stack' = Pop(stack)) =>
           (result' = "false" /\ mode' = "run")
    ]_vars

\* C13 amended: Try returns true iff try() returns without a panic; when
\* try() panics the panic is never re-raised, catch (if not nil) is called
\* exactly once with the panic value, and Try returns false once catch has
\* returned, or at once when catch is nil; when catch itself panics or ends
\* the goroutine, Try returns nothing and that exit goes on in its caller.
C13_TryProbe ==
  [][ /\ TryCatches
      /\ (stack # <<>> /\ Top.fn = "catch" /\ mode = "ret") =>
           (result' = "false" /\ mode' = "run" /\ stack' = Pop(stack)
            /\ caught' = caught)
      /\ (stack # <<>> /\ Top.fn = "catch" /\ mode \in {"panic", "goexit"}) =>
           (stack' = Pop(stack) /\ mode' = mode /\ err' = err
            /\ result' = result /\ caught' = caught)
    ]_vars

\* try() raised the Fatal signal: catch got it, Try returned false and the
\* caller ran on to its end
C13_Witness ==
  /\ calls = <<"Try", "Fatal">>
  /\ caught = <<suiteError(TRUE, "boom")>>
  /\ result = "false"
  /\ mode = "done"
  /\ host = <<>>


\* ---- C14 ------------------------------------------------------------------
\* every test concluded so far is a Check whose test returned nil
AllChecksPassed ==
  \A i \in 1..Len(concl) : concl[i].fn = "Check" /\ concl[i].cause = "nil"

\* C14: as long as every concluded test is a Check whose test returned
\* success, in any grouping, passed is the number of Checks concluded,
\* failed and skiped are 0 and nothing went to the host; when the run is
\* over passed is the number of Check calls made.
C14_AllChecksPass ==
  AllChecksPassed =>
    /\ passed = Len(concl)
    /\ failed = 0
    /\ skiped = 0
    /\ host = <<>>
    /\ mode = "done" => passed = NumCalls(calls, "Check")

\* two passing Checks in a Start group, run to its end
C14_Witness ==
  /\ calls = <<"Start", "Check", "Check">>
  /\ mode = "done"
  /\ AllChecksPassed
  /\ Len(concl) = 2
  /\ passed = 2
  /\ out[Len(out)] = [kind |-> "Total", text |-> 2, indent |-> 0]


\* ---- C15 ------------------------------------------------------------------
\* C15: passed + failed + skiped is the number of Check, Critical and Skip
\* operations concluded so far: each of them adds 1 to exactly one counter.
C15_TotalCountsTests ==
  passed + failed + skiped = Len(concl)

\* ---- C16 ------------------------------------------------------------------
\* C16: a fatal failure is counted once.  When the Goexit started by a
\* nested Check or Critical unwinds through an outer Check or Critical, the
\* outer one adds nothing to failed or passed, prints nothing and sends
\* nothing to the host.
C16_FatalCountedOnce ==
  [][ (stack # <<>> /\ Top.fn \in {"Check", "Critical"} /\ mode = "goexit") =>
        /\ failed' = failed
        /\ passed' = passed
        /\ skiped' = skiped
        /\ out' = out
        /\ host' = host
        /\ concl' = concl
        /\ mode' = "goexit"
        /\ stack' = Pop(stack)
    ]_vars

\* a Check inside the body of a Check got the Fatal signal: the run has
\* ended with one failure counted, one Fail line and one call on T
C16_Witness ==
  /\ calls = <<"Check", "Check", "Fatal">>
  /\ mode = "exit"
  /\ last = [fn |-> "Check", name |-> 2, cause |-> "Fatal"]
  /\ failed = 1
  /\ passed = 0
  /\ NumKind(out, "fail") = 1
  /\ Len(host) = 1

\* ---- C17 ------------------------------------------------------------------
\* C17: failed is the number of failures sent to the host, fatal or not,
\* and at most one of them is fatal.
C17_FailedMatchesHost ==
  /\ failed = Len(host)
  /\ Cardinality({i \in 1..Len(host) : host[i].fatal}) <= 1

\* a Check whose test returned an error, then a Check ended by Fatal
C17_Witness ==
  /\ calls = <<"Check", "Check", "Fatal">>
  /\ mode = "exit"
  /\ failed = 2
  /\ Len(host) = 2
  /\ ~host[1].fatal
  /\ host[2].fatal

\* ---- C18 ------------------------------------------------------------------
\* the lines the step prints
NewLines == {out'[i] : i \in (Len(out) + 1)..Len(out')}

\* C18: the indentation is never negative and is 2 times the number of
\* groups whose body is running; every line is printed with that prefix, so
\* a group's title line has the prefix of its parent and the outcome line of
\* a check directly inside the group is 2 deeper than the title.
C18_IndentIsDepth ==
  [][ /\ indent >= 0 /\ indent' >= 0
      /\ indent = 2 * NumFrames(stack, "Title")
      /\ indent' = 2 * NumFrames(stack', "Title")
      /\ Len(out') >= Len(out)
      /\ \A l \in NewLines : l.indent = 2 * NumFrames(stack, "Title")
      /\ (calls' = Append(calls, "Title") \/ calls' = Append(calls, "Start")) =>
           /\ [kind |-> "title", text |-> NextName, indent |-> indent] \in NewLines
           /\ indent' = indent + 2
      /\ (stack # <<>> /\ Top.fn \in {"Check", "Critical"}
          /\ Len(stack) >= 2 /\ stack[Len(stack) - 1].fn = "Title") =>
           \A l \in NewLines : l.indent = stack[Len(stack) - 1].indent0 + 2
    ]_vars

\* a Skip inside a group inside a group: its line is 4 deep, the titles are
\* at 0 and 2
C18_Witness ==
  /\ calls = <<"Title", "Title", "Skip">>
  /\ out[2] = [kind |-> "title", text |-> 1, indent |-> 0]
  /\ out[5] = [kind |-> "title", text |-> 2, indent |-> 2]
  /\ out[7] = [kind |-> "skip", text |-> 3, indent |-> 4]
  /\ indent = 4

\* ---- C19 ------------------------------------------------------------------
CountersUnchanged ==
  passed' = passed /\ failed' = failed /\ skiped' = skiped

\* C19: Title (and Start), Info and Try change no counter themselves: the
\* counters change only when a Check, Critical or Skip concludes.  Info
\* prints its line and changes nothing of the Suite.  Try, whether try()
\* returns or a signal is caught, changes no counter, prints nothing and
\* sends nothing to the host.
C19_NoCounterChange ==
  [][ /\ (\/ calls' = Append(calls, "Title")
          \/ calls' = Append(calls, "Start")
          \/ (stack # <<>> /\ Top.fn \in {"Title", "Start"}
              /\ Len(stack') < Len(stack))) =>
           (CountersUnchanged /\ host' = host /\ concl' = concl)
      /\ calls' = Append(calls, "Info") =>
           /\ CountersUnchanged
           /\ indent' = indent
           /\ host' = host
           /\ stack' = stack
           /\ mode' = mode
           /\ out' = Append(out, [kind |-> "info", text |-> NextName,
                                  indent |-> indent])
      /\ (\/ calls' = Append(calls, "Try")
          \/ (stack # <<>> /\ Top.fn \in {"Try", "catch"}
              /\ stack' # stack /\ Len(stack') <= Len(stack))) =>
           /\ CountersUnchanged
           /\ indent' = indent
           /\ out' = out
           /\ host' = host
           /\ concl' = concl
      /\ ~CountersUnchanged => Len(concl') = Len(concl) + 1
    ]_vars

\* a Check whose test let Try catch a Fail signal and then returned nil: it
\* has passed, with no failure counted, printed or sent to the host
C19_Witness ==
  /\ calls = <<"Check", "Try", "Fail">>
  /\ result = "false"
  /\ last = [fn |-> "Check", name |-> 1, cause |-> "nil"]
  /\ passed = 1
  /\ failed = 0
  /\ NumKind(out, "fail") = 0
  /\ host = <<>>

====
